---- MODULE Spec2Model ----
(***************************************************************************)
(* State machine of the VoxTranslate session controller (src/App.tsx) and  *)
(* its two service calls (src/services/geminiService.ts).                  *)
(*                                                                         *)
(* React state and refs are variables.  Every handler is one action; every *)
(* `await` on a network answer splits the handler into the part before and *)
(* the continuation after the answer.  A handler closes over the state of  *)
(* the render in which it was created, so a suspended invocation carries   *)
(* the values it captured (text, languages, history).                      *)
(*                                                                         *)
(* selectedVoice is passed through to the synthesizer and read nowhere     *)
(* else; it is left out.  Each saved record reads a clock that has         *)
(* advanced since the previous one.                                        *)
(***************************************************************************)
EXTENDS Integers, Sequences, FiniteSets, TLC

\* ---------------------------------------------------------------- bounds
\* operations on the session in one behaviour: accepted submits, replays,
\* history clears, loads of a history entry and page reloads (edits of the
\* form fields are not counted)
MaxOps == 2

\* ------------------------------------------------------ program constants
HistoryCap == 10    \* .slice(0, 10)

\* ------------------------------------------------------------ input sets
Space == " "
\* input texts: empty, whitespace only, and a text with a leading blank
Texts == { <<>>, <<Space>>, <<Space, "a">> }
\* answers of the remote translator (response.text || ''): none, or a text
RemoteTranslations == { <<>>, <<"x">> }
Langs == { "en", "es" }
\* err.message of a rejected translation request ("" = no message)
TranslateErrors == { "", "quota exceeded" }
\* err.message of a rejected generateSpeech (service error, or no payload)
SpeechErrors == { "No audio data returned" }
DecodeErrors == { "invalid audio" }

NoError   == "null"
NoStore   == <<>>      \* getItem gives null: no item under the key
NoContext == 0
NoSource  == 0

VARIABLES
  inputText, translatedText, sourceLang, targetLang,   \* useState
  isLoading, isPlaying, history, error,                \* useState
  audioContextRef, sourceNodeRef,                      \* useRef
  store,          \* localStorage 'vox_history': NoStore or <<encoded history>>
  loaded,         \* the mount effect has run
  translating,    \* handleTranslateAndSpeak invocations awaiting translateText
  speaking,       \* speakText invocations awaiting generateSpeech / decode
  sources,        \* audio sources started and not yet finished
  contexts,       \* audio contexts created by this page
  now,            \* the last value Date.now() has returned
  nextId          \* id of the next operation on the session

vars == << inputText, translatedText, sourceLang, targetLang, isLoading,
           isPlaying, history, error, audioContextRef, sourceNodeRef, store,
           loaded, translating, speaking, sources, contexts, now, nextId >>

uiVars   == << inputText, translatedText, sourceLang, targetLang >>
audioVars == << audioContextRef, sourceNodeRef, sources, contexts >>
countVars == << nextId >>

\* ------------------------------------------------------------ pure parts

\* String.prototype.trim on a sequence of characters
RECURSIVE TrimStart(_)
TrimStart(t) == IF t = <<>> THEN <<>>
                ELSE IF Head(t) = Space THEN TrimStart(Tail(t)) ELSE t
RECURSIVE TrimEnd(_)
TrimEnd(t) == IF t = <<>> THEN <<>>
              ELSE IF t[Len(t)] = Space THEN TrimEnd(SubSeq(t, 1, Len(t) - 1))
              ELSE t
Trim(t) == TrimEnd(TrimStart(t))

\* mutant: the input is tested without trimming it
IsBlankUntrimmed(t) == t = <<>>

\* !inputText.trim()
IsBlank(t) == Trim(t) = <<>>

\* Array.prototype.slice(0, n)
Slice(s, n) == SubSeq(s, 1, IF Len(s) < n THEN Len(s) ELSE n)

\* mutant: the new record is not put in front
NewHistoryWithout(result, hist) == Slice(hist, HistoryCap)

\* [result, ...history].slice(0, 10)
NewHistory(result, hist) == Slice(<<result>> \o hist, HistoryCap)

\* JSON.stringify of a history: the list of the records' field values
Stringify(hist) ==
  [ i \in 1..Len(hist) |->
      << hist[i].originalText, hist[i].translatedText, hist[i].sourceLang,
         hist[i].targetLang, hist[i].timestamp >> ]

\* JSON.parse of a stored history
Parse(saved) ==
  [ i \in 1..Len(saved) |->
      [ originalText   |-> saved[i][1], translatedText |-> saved[i][2],
        sourceLang     |-> saved[i][3], targetLang     |-> saved[i][4],
        timestamp      |-> saved[i][5] ] ]

\* what the mount effect makes of the stored item
LoadedHistory(saved) == IF saved = NoStore THEN <<>> ELSE Parse(saved[1])

\* err.message || "An unexpected error occurred"
TranslateErrorText(msg) ==
  IF msg = "" THEN "An unexpected error occurred" ELSE msg

\* "Speech synthesis failed: " + err.message
SpeechErrorText(msg) == "Speech synthesis failed: " \o msg

\* a history an earlier run of the program has left in the store
EarlierHistory(n) ==
  [ i \in 1..n |->
      [ originalText |-> <<Space, "a">>, translatedText |-> <<"x">>,
        sourceLang |-> "en", targetLang |-> "es", timestamp |-> n + 1 - i ] ]

EarlierStores == { << Stringify(EarlierHistory(HistoryCap)) >> }

\* ------------------------------------------------------------- initial state

\* useState / useRef initial values of a freshly mounted App
Init ==
  /\ inputText = <<>> /\ translatedText = <<>>
  /\ sourceLang = "en" /\ targetLang = "es"
  /\ isLoading = FALSE /\ isPlaying = FALSE
  /\ history = <<>> /\ error = NoError
  /\ audioContextRef = NoContext /\ sourceNodeRef = NoSource
  /\ store \in EarlierStores
  /\ loaded = FALSE
  /\ translating = {} /\ speaking = {} /\ sources = {}
  /\ contexts = 0
  /\ now = HistoryCap
  /\ nextId = 1

\* ------------------------------------------------------------- mount effect

\* useEffect(() => { ...getItem...; if (saved) setHistory(JSON.parse(saved)) }, [])
LoadHistory ==
  /\ ~loaded
  /\ loaded' = TRUE
  /\ history' = LoadedHistory(store)
  /\ UNCHANGED << uiVars, isLoading, isPlaying, error, audioVars, store,
                  translating, speaking, now, countVars >>

\* ------------------------------------------------------------- speakText

\* mutant: speakText without its guard
SkipsSpeechNever(text) == FALSE

\* if (!text) return
SkipsSpeech(text) == text = <<>>

\* speakText up to its first await: guard, setIsPlaying(true), generateSpeech
\* sets isPlaying, speaking.  The invocation records the requests its
\* operation has sent so far: transReqs to the translator, synthReqs to the
\* synthesizer
SpeakTextCall(id, origin, text, sent) ==
  IF SkipsSpeech(text)
  THEN UNCHANGED << isPlaying, speaking >>
  ELSE /\ isPlaying' = TRUE
       /\ speaking' = speaking \cup
            { [ id |-> id, origin |-> origin, phase |-> "synth",
                text |-> text, ctx |-> NoContext,
                transReqs |-> sent, synthReqs |-> 1 ] }

\* mutant: a context is created for every answer
ContextForEach(ref, created) == created + 1

\* the context the answer is decoded with: created on first use
ContextFor(ref, created) == IF ref = NoContext THEN created + 1 ELSE ref

\* generateSpeech answered with a payload: lazily create the context,
\* start decodeAudioData
SynthesisSucceeded(task) ==
  /\ task \in speaking /\ task.phase = "synth"
  /\ audioContextRef' = ContextFor(audioContextRef, contexts)
  /\ contexts' = IF audioContextRef' = audioContextRef
               THEN contexts ELSE contexts + 1
  /\ speaking' = (speaking \ {task}) \cup
       { [ task EXCEPT !.phase = "decode", !.ctx = audioContextRef' ] }
  /\ UNCHANGED << uiVars, isLoading, isPlaying, history, error, sourceNodeRef,
                  sources, store, loaded, translating, now, countVars >>

\* mutant: the loading flag is not reset on the way out
LoadingNotReset(loading) == loading

\* finally { setIsLoading(false) } of handleTranslateAndSpeak
LoadingAfterFinally(loading) == FALSE

\* mutant: the catch sends the synthesis request once more
SpeechRetriedOnce(task) ==
  { [ task EXCEPT !.phase = "synth", !.synthReqs = @ + 1 ] }

\* the synthesis requests the catch of speakText sends again: none
SpeechRetries(task) == {}

\* catch (err) of speakText, then the caller's finally when the caller is
\* handleTranslateAndSpeak
SpeakTextCatch(task, msg) ==
  /\ error' = SpeechErrorText(msg)
  /\ isPlaying' = FALSE
  /\ speaking' = (speaking \ {task}) \cup SpeechRetries(task)
  /\ isLoading' = IF task.origin = "submit"
                  THEN LoadingAfterFinally(isLoading) ELSE isLoading

\* generateSpeech rejected, or returned no audio payload
SynthesisFailed(task, msg) ==
  /\ task \in speaking /\ task.phase = "synth"
  /\ SpeakTextCatch(task, msg)
  /\ UNCHANGED << uiVars, history, audioVars, store, loaded, translating, now,
                  countVars >>

\* decode / decodeAudioData threw
DecodeFailed(task, msg) ==
  /\ task \in speaking /\ task.phase = "decode"
  /\ SpeakTextCatch(task, msg)
  /\ UNCHANGED << uiVars, history, audioVars, store, loaded, translating, now,
                  countVars >>

\* mutant: the current source is left running
StopCurrentMissing(srcs, ref) == srcs

\* if (sourceNodeRef.current) sourceNodeRef.current.stop()
StopCurrent(srcs, ref) ==
  { IF s.id = ref /\ s.state = "playing" THEN [ s EXCEPT !.state = "stopped" ]
    ELSE s : s \in srcs }

\* decodeAudioData resolved: stop the current source, start a new one
DecodeSucceeded(task) ==
  /\ task \in speaking /\ task.phase = "decode"
  /\ sources' = StopCurrent(sources, sourceNodeRef) \cup
       { [ id |-> task.id, origin |-> task.origin, ctx |-> task.ctx,
           state |-> "playing" ] }
  /\ sourceNodeRef' = task.id
  /\ speaking' = speaking \ {task}
  /\ isLoading' = IF task.origin = "submit"
                  THEN LoadingAfterFinally(isLoading) ELSE isLoading
  /\ UNCHANGED << uiVars, isPlaying, history, error, audioContextRef, contexts,
                  store, loaded, translating, now, countVars >>

\* mutant: no onended handler resets the flag
OnEndedMissing(playing) == playing

\* source.onended = () => setIsPlaying(false)
OnEnded(playing) == FALSE

\* the buffer has been played to its end: source.onended
PlaybackEnded(s) ==
  /\ s \in sources /\ s.state = "playing"
  /\ sources' = sources \ {s}
  /\ isPlaying' = OnEnded(isPlaying)
  /\ UNCHANGED << uiVars, isLoading, history, error, audioContextRef,
                  sourceNodeRef, contexts, store, loaded, translating,
                  speaking, now, countVars >>

\* the ended event of a source that stop() has stopped: source.onended
StoppedEnded(s) ==
  /\ s \in sources /\ s.state = "stopped"
  /\ sources' = sources \ {s}
  /\ isPlaying' = OnEnded(isPlaying)
  /\ UNCHANGED << uiVars, isLoading, history, error, audioContextRef,
                  sourceNodeRef, contexts, store, loaded, translating,
                  speaking, now, countVars >>

\* mutant: the replay speaks the input text
ReplayTextInput == inputText

\* the text the replay button hands to speakText
ReplayText == translatedText

\* replay button: onClick={() => speakText(translatedText)}, shown when
\* translatedText is not empty
Replay ==
  /\ loaded /\ translatedText # <<>>
  /\ nextId <= MaxOps
  /\ SpeakTextCall(nextId, "replay", ReplayText, 0)
  /\ nextId' = nextId + 1
  /\ UNCHANGED << uiVars, isLoading, history, error, audioVars, store, loaded,
                  translating, now >>

\* ------------------------------------------------------------- history

\* the history a suspended handler appends to: the `history` of the render
\* that created the handler (saveToHistory closes over it)
ClosureHistory(inv) == inv.hist

\* mutant: the history of the render is stored instead of the new one
StoredItemStale(newHistory, hist) == << Stringify(hist) >>

\* localStorage.setItem('vox_history', JSON.stringify(newHistory))
StoredItem(newHistory, hist) == << Stringify(newHistory) >>

\* saveToHistory: setHistory(newHistory); localStorage.setItem(...)
SaveToHistory(result, hist) ==
  /\ history' = NewHistory(result, hist)
  /\ store' = StoredItem(NewHistory(result, hist), hist)

\* mutant: the stored item is left in place
RemovedItemKept(saved) == saved

\* localStorage.removeItem('vox_history')
RemovedItem(saved) == NoStore

\* clearHistory ("Clear All", shown when the history is not empty)
ClearHistory ==
  /\ loaded /\ Len(history) > 0
  /\ nextId <= MaxOps
  /\ history' = <<>>
  /\ store' = RemovedItem(store)
  /\ nextId' = nextId + 1
  /\ UNCHANGED << uiVars, isLoading, isPlaying, error, audioVars, loaded,
                  translating, speaking, now >>

\* mutant: the input is restored from the wrong field
EntryInputTranslated(item) == item.translatedText

\* setInputText(item.originalText)
EntryInput(item) == item.originalText

\* click on a history item
LoadHistoryEntry(i) ==
  /\ loaded /\ i \in 1..Len(history)
  /\ nextId <= MaxOps
  /\ nextId' = nextId + 1
  /\ inputText' = EntryInput(history[i])
  /\ translatedText' = history[i].translatedText
  /\ sourceLang' = history[i].sourceLang
  /\ targetLang' = history[i].targetLang
  /\ UNCHANGED << isLoading, isPlaying, history, error, audioVars, store,
                  loaded, translating, speaking, now >>

\* ------------------------------------------------------------- translate

\* mutant: translateText without its short cut
IsLocalNever(src, tgt) == FALSE

\* translateText: no request when the two languages are the same
IsLocal(src, tgt) == src = tgt

\* requests translateText sends to the translation service
TranslateRequests(src, tgt) == IF IsLocal(src, tgt) THEN 0 ELSE 1

\* mutant: the control is not disabled while loading
SubmitEnabledWhileLoading == ~IsBlank(inputText)

\* disabled={isLoading || !inputText.trim()}
SubmitEnabled == ~isLoading /\ ~IsBlank(inputText)

\* mutant: the record takes the input text of the moment of the answer
RecordedOriginalCurrent(inv, current) == current

\* originalText: inputText of the render that created the handler, the text
\* that was sent to translateText
RecordedOriginal(inv, current) == inv.text

\* handleTranslateAndSpeak after translateText has resolved: lines 52-64 and,
\* when speakText returns at once, the finally
\* sets translatedText, now, history, store, isPlaying, speaking, isLoading
AfterTranslate(inv, translation, loading) ==
  /\ translatedText' = translation
  /\ now' = now + 1
  /\ SaveToHistory([ originalText   |-> RecordedOriginal(inv, inputText),
                     translatedText |-> translation,
                     sourceLang     |-> inv.src,
                     targetLang     |-> inv.tgt,
                     timestamp      |-> now + 1 ], ClosureHistory(inv))
  /\ SpeakTextCall(inv.id, "submit", translation, inv.transReqs)
  /\ isLoading' = IF SkipsSpeech(translation)
                  THEN LoadingAfterFinally(loading) ELSE loading

\* mutant: the error of the last attempt is kept
ErrorKeptOnSubmit(err) == err

\* setError(null) of handleTranslateAndSpeak
ErrorAfterSubmit(err) == NoError

\* "Translate & Speak" clicked while enabled
Submit ==
  /\ loaded /\ SubmitEnabled
  /\ ~IsBlank(inputText)
  /\ nextId <= MaxOps
  /\ LET inv == [ id |-> nextId, text |-> inputText, src |-> sourceLang,
                  tgt |-> targetLang, hist |-> history,
                  transReqs |-> TranslateRequests(sourceLang, targetLang) ]
     IN  /\ error' = ErrorAfterSubmit(error)
         /\ IF IsLocal(sourceLang, targetLang)
            THEN /\ AfterTranslate(inv, inputText, TRUE)
                 /\ UNCHANGED translating
            ELSE /\ isLoading' = TRUE
                 /\ translating' = translating \cup {inv}
                 /\ UNCHANGED << translatedText, now, history, store,
                                 isPlaying, speaking >>
  /\ nextId' = nextId + 1
  /\ UNCHANGED << inputText, sourceLang, targetLang, audioVars, loaded >>

\* handleTranslateAndSpeak called with blank input: if (!inputText.trim()) return
SubmitBlank ==
  /\ loaded /\ IsBlank(inputText)
  /\ UNCHANGED << uiVars, isLoading, isPlaying, history, error, audioVars,
                  store, loaded, translating, speaking, now, countVars >>

\* the translation request answered with `result`
TranslationSucceeded(inv, result) ==
  /\ inv \in translating
  /\ translating' = translating \ {inv}
  /\ AfterTranslate(inv, result, isLoading)
  /\ UNCHANGED << inputText, sourceLang, targetLang, error, audioVars, loaded,
                  countVars >>

\* the translation requests the catch of handleTranslateAndSpeak sends
\* again: none
TranslateRetries(inv) == {}

\* the translation request was rejected: catch, finally
TranslationFailed(inv, msg) ==
  /\ inv \in translating
  /\ translating' = (translating \ {inv}) \cup TranslateRetries(inv)
  /\ error' = TranslateErrorText(msg)
  /\ isLoading' = LoadingAfterFinally(isLoading)
  /\ UNCHANGED << uiVars, isPlaying, history, audioVars, store, loaded,
                  speaking, now, countVars >>

\* ------------------------------------------------------------- form controls

\* textarea onChange
SetInputText(t) ==
  /\ loaded /\ t \in Texts /\ t # inputText
  /\ inputText' = t
  /\ UNCHANGED << translatedText, sourceLang, targetLang, isLoading, isPlaying,
                  history, error, audioVars, store, loaded, translating,
                  speaking, now, countVars >>

\* mutant: the Clear button dismisses the error too
ErrorDismissedByClear(err) == NoError

\* the error after the Clear button: its handler does not set it
ErrorAfterClear(err) == err

\* "Clear" button: setInputText('')
ClearInput ==
  /\ loaded /\ inputText # <<>>
  /\ inputText' = <<>>
  /\ error' = ErrorAfterClear(error)
  /\ UNCHANGED << translatedText, sourceLang, targetLang, isLoading, isPlaying,
                  history, audioVars, store, loaded, translating,
                  speaking, now, countVars >>

\* source language select
SetSourceLang(l) ==
  /\ loaded /\ l \in Langs /\ l # sourceLang
  /\ sourceLang' = l
  /\ UNCHANGED << inputText, translatedText, targetLang, isLoading, isPlaying,
                  history, error, audioVars, store, loaded, translating,
                  speaking, now, countVars >>

\* target language select
SetTargetLang(l) ==
  /\ loaded /\ l \in Langs /\ l # targetLang
  /\ targetLang' = l
  /\ UNCHANGED << inputText, translatedText, sourceLang, isLoading, isPlaying,
                  history, error, audioVars, store, loaded, translating,
                  speaking, now, countVars >>

\* swap button
SwapLanguages ==
  /\ loaded /\ sourceLang # targetLang
  /\ sourceLang' = targetLang
  /\ targetLang' = sourceLang
  /\ UNCHANGED << inputText, translatedText, isLoading, isPlaying, history,
                  error, audioVars, store, loaded, translating, speaking, now,
                  countVars >>

\* ------------------------------------------------------------- page reload

\* the page is reloaded: a fresh App is mounted, pending answers and audio of
\* the old page are gone, localStorage stays
Restart ==
  /\ nextId <= MaxOps
  /\ inputText' = <<>> /\ translatedText' = <<>>
  /\ sourceLang' = "en" /\ targetLang' = "es"
  /\ isLoading' = FALSE /\ isPlaying' = FALSE
  /\ history' = <<>> /\ error' = NoError
  /\ audioContextRef' = NoContext /\ sourceNodeRef' = NoSource
  /\ loaded' = FALSE
  /\ translating' = {} /\ speaking' = {} /\ sources' = {}
  /\ contexts' = 0
  /\ nextId' = nextId + 1
  /\ UNCHANGED << store, now >>

\* ------------------------------------------------------------- specification

Next ==
  \/ LoadHistory
  \/ Submit
  \/ SubmitBlank
  \/ \E inv \in translating : \E r \in RemoteTranslations :
       TranslationSucceeded(inv, r)
  \/ \E inv \in translating : \E m \in TranslateErrors :
       TranslationFailed(inv, m)
  \/ Replay
  \/ \E task \in speaking : SynthesisSucceeded(task)
  \/ \E task \in speaking : \E m \in SpeechErrors : SynthesisFailed(task, m)
  \/ \E task \in speaking : DecodeSucceeded(task)
  \/ \E task \in speaking : \E m \in DecodeErrors : DecodeFailed(task, m)
  \/ \E s \in sources : PlaybackEnded(s)
  \/ \E s \in sources : StoppedEnded(s)
  \/ ClearHistory
  \/ \E i \in 1..Len(history) : LoadHistoryEntry(i)
  \/ \E t \in Texts : SetInputText(t)
  \/ ClearInput
  \/ \E l \in Langs : SetSourceLang(l)
  \/ \E l \in Langs : SetTargetLang(l)
  \/ SwapLanguages
  \/ Restart

Spec == Init /\ [][Next]_vars

\* ------------------------------------------------------------- derived notions

\* sources that have been started and have neither ended nor been stopped
Playing(srcs) == { s \in srcs : s.state = "playing" }

\* handleTranslateAndSpeak invocations that have not returned yet
PendingSubmits ==
  { inv.id : inv \in translating } \cup
  { t.id : t \in { u \in speaking : u.origin = "submit" } }

\* a step in which saveToHistory runs
Appends ==
  \/ Submit /\ IsLocal(sourceLang, targetLang)
  \/ \E inv \in translating : \E r \in RemoteTranslations :
       TranslationSucceeded(inv, r)

\* ------------------------------------------------------------- fairness

\* every request is answered, every started source ends, every ended event
\* is delivered, the mount effect runs
FairSpec ==
  /\ Spec
  /\ WF_vars(LoadHistory)
  /\ WF_vars(\E inv \in translating :
               \/ \E r \in RemoteTranslations : TranslationSucceeded(inv, r)
               \/ \E m \in TranslateErrors : TranslationFailed(inv, m))
  /\ WF_vars(\E task \in speaking :
               \/ SynthesisSucceeded(task)
               \/ \E m \in SpeechErrors : SynthesisFailed(task, m))
  /\ WF_vars(\E task \in speaking :
               \/ DecodeSucceeded(task)
               \/ \E m \in DecodeErrors : DecodeFailed(task, m))
  /\ WF_vars(\E s \in sources : PlaybackEnded(s))
  /\ WF_vars(\E s \in sources : StoppedEnded(s))

\* ------------------------------------------------------------- claims

\* C1: the history never has more than 10 entries, and every append leaves
\* the new record at index 0 followed by the records held just before the
\* append, in their order, the oldest dropped beyond 10.
C1_AppendKeepsHeldRecords ==
  /\ [](Len(history) <= HistoryCap)
  /\ [][ Appends =>
           /\ Len(history') >= 1
           /\ history'[1].timestamp = now'
           /\ Tail(history') = Slice(history, HistoryCap - 1) ]_vars

\* C2: at most one source is started and not stopped; when speakText starts
\* a source, the one started before has been stopped and exactly the new one
\* is playing.
C2_OneSourcePlaying ==
  /\ [](Cardinality(Playing(sources)) <= 1)
  /\ [][ \A task \in speaking :
           DecodeSucceeded(task) =>
             /\ Cardinality(Playing(sources')) = 1
             /\ \A s \in Playing(sources') : s.id = task.id
             /\ sourceNodeRef' = task.id ]_vars

\* a source has been preempted by the start of another one
C2_Witness ==
  /\ \E s \in sources : s.state = "stopped"
  /\ \E s \in sources : s.state = "playing" /\ s.id = sourceNodeRef

\* C3: a failed translation leaves the history and the stored copy as they
\* were, sets the error, clears the loading flag, and issues no synthesis
\* request for its submit: nothing of that submit stays in flight.
C3_FailedTranslationAborts ==
  [][ \A inv \in translating : \A m \in TranslateErrors :
        TranslationFailed(inv, m) =>
          /\ history' = history /\ store' = store
          /\ error' # NoError /\ ~isLoading'
          /\ speaking' = speaking
          /\ inv.id \notin PendingSubmits' ]_vars

\* a translation has failed, with the history as loaded at startup
C3_Witness ==
  /\ error \in { TranslateErrorText(m) : m \in TranslateErrors }
  /\ ~isLoading /\ translating = {} /\ speaking = {}
  /\ now = HistoryCap /\ Len(history) = HistoryCap

\* C4: a call of the submit handler with an input that is blank after
\* trimming changes nothing: no request, no history entry, flags, error,
\* displayed translation and stored history as before.
C4_BlankSubmitIgnored ==
  [][ ((Submit \/ SubmitBlank) /\ Trim(inputText) = <<>>) =>
        UNCHANGED << isLoading, isPlaying, error, translatedText, history,
                     store, translating, speaking, nextId >> ]_vars

\* the handler is called in Idle with a whitespace-only input
C4_Witness ==
  /\ inputText = << Space >>
  /\ ENABLED SubmitBlank
  /\ ~isLoading /\ ~isPlaying /\ error = NoError

\* C5: clearHistory empties the history and removes the stored copy, so that
\* the load of a restart finds an empty history, and leaves flags, error and
\* everything in flight alone.
C5_ClearThenRestartEmpty ==
  [][ /\ ClearHistory =>
          /\ history' = <<>> /\ store' = NoStore
          /\ LoadedHistory(store') = <<>>
          /\ UNCHANGED << isLoading, isPlaying, error, translating, speaking,
                          sources, uiVars >>
      /\ (LoadHistory /\ store = NoStore) => history' = <<>> ]_vars

\* the page has been reloaded right after a clear: the new page is about to
\* load the history and finds no stored item
C5_Witness ==
  /\ ~loaded /\ store = NoStore /\ history = <<>>
  /\ nextId = 3 /\ now = HistoryCap

\* C6 as stated: every successful translation is followed by one synthesis
\* request for the translated text, with the playing flag set.
C6_EverySuccessSpeaks ==
  [][ \A inv \in translating : \A r \in RemoteTranslations :
        TranslationSucceeded(inv, r) =>
          /\ isPlaying'
          /\ speaking' = speaking \cup
               { [ id |-> inv.id, origin |-> "submit", phase |-> "synth",
                   text |-> r, ctx |-> NoContext,
                   transReqs |-> inv.transReqs, synthReqs |-> 1 ] }
          /\ speaking' # speaking ]_vars

\* C6 amended: a successful translation with a non-empty text is followed by
\* exactly one synthesis request for that text, playing flag set and loading
\* flag kept; with an empty text the record is appended, no synthesis request
\* is sent, the playing flag is left alone and the handler returns.
C6_NonEmptySuccessSpeaks ==
  [][ \A inv \in translating : \A r \in RemoteTranslations :
        TranslationSucceeded(inv, r) =>
          /\ translatedText' = r
          /\ history'[1].translatedText = r
          /\ r # <<>> =>
               /\ isPlaying' /\ isLoading' = isLoading
               /\ speaking' = speaking \cup
                    { [ id |-> inv.id, origin |-> "submit", phase |-> "synth",
                        text |-> r, ctx |-> NoContext,
                        transReqs |-> inv.transReqs, synthReqs |-> 1 ] }
               /\ speaking' # speaking
          /\ r = <<>> =>
               /\ speaking' = speaking /\ isPlaying' = isPlaying
               /\ ~isLoading' ]_vars

\* the translator has answered with an empty text: the record is in the
\* history and the controller is back to rest with nothing to speak
C6_Witness ==
  /\ Len(history) >= 1
  /\ history[1].translatedText = <<>> /\ history[1].timestamp = now
  /\ translatedText = <<>>
  /\ ~isLoading /\ ~isPlaying /\ speaking = {} /\ sources = {}
  /\ sourceNodeRef = NoSource /\ error = NoError

\* C7: once the mount effect has run, the stored item decodes to the history
\* in memory; appends and clears change both in one step, and nothing but an
\* append, a clear or a page load changes either.
C7_StoreMirrorsHistory ==
  /\ [](loaded => LoadedHistory(store) = history)
  /\ [][ /\ LoadedHistory(store') = history' \/ ~(Appends \/ ClearHistory)
         /\ (history' # history \/ store' # store) =>
              (Appends \/ ClearHistory \/ Restart \/ LoadHistory) ]_vars

\* a record has been appended to a full history and stored
C7_Witness ==
  /\ loaded /\ store # NoStore
  /\ Len(history) = HistoryCap /\ history[1].timestamp > HistoryCap
  /\ Len(store[1]) = HistoryCap

\* C8 as stated: no submit is accepted while a previous translate-then-speak
\* sequence is translating or speaking.
C8_NoSubmitWhileBusy ==
  [][ Submit =>
        /\ PendingSubmits = {}
        /\ \A s \in Playing(sources) : s.origin # "submit" ]_vars

\* C8 amended: no submit is accepted while the loading flag is set, which it
\* is as long as a handler invocation awaits translation, synthesis or
\* decoding; so at most one invocation is pending at any time.
C8_NoSubmitWhileLoading ==
  /\ [](Cardinality(PendingSubmits) <= 1)
  /\ [](PendingSubmits # {} => isLoading)
  /\ [][ Submit => ~isLoading /\ PendingSubmits = {} ]_vars

\* a submit has been accepted while the audio of the previous one plays
C8_Witness ==
  /\ translating # {}
  /\ \E s \in Playing(sources) : s.origin = "submit"

\* C9: with every request answered and every playback ending, a set playing
\* flag is always cleared again; it is cleared by the end of a source or by
\* a failure that sets the error.
C9_PlayingEventuallyCleared ==
  /\ isPlaying ~> ~isPlaying
  /\ [][ (isPlaying /\ ~isPlaying') =>
           \/ \E s \in sources : PlaybackEnded(s) \/ StoppedEnded(s)
           \/ error' # NoError /\ Cardinality(speaking') < Cardinality(speaking)
           \/ Restart ]_vars

\* a playback has come to its natural end and the controller is idle
C9_Witness ==
  /\ sourceNodeRef # NoSource /\ sources = {} /\ speaking = {}
  /\ ~isPlaying /\ ~isLoading /\ error = NoError

\* C10: a failed synthesis or decoding sets the error, clears the playing
\* flag, starts no source and sends nothing again: an operation sends at most
\* one translation request and one synthesis request, a replay no
\* translation request.
C10_SpeechFailureNoRetry ==
  /\ [][ \A task \in speaking : \A m \in SpeechErrors \cup DecodeErrors :
           (SynthesisFailed(task, m) \/ DecodeFailed(task, m)) =>
             /\ error' = SpeechErrorText(m) /\ ~isPlaying'
             /\ sources' = sources /\ sourceNodeRef' = sourceNodeRef
             /\ translating' = translating
             /\ speaking' = speaking \ {task} ]_vars
  /\ [](\A inv \in translating : inv.transReqs <= 1)
  /\ [](\A t \in speaking :
          /\ t.synthReqs <= 1 /\ t.transReqs <= 1
          /\ t.origin = "replay" => t.transReqs = 0)

\* the synthesizer has returned no audio: error set, nothing plays
C10_Witness ==
  /\ error = SpeechErrorText("No audio data returned")
  /\ ~isPlaying /\ sources = {} /\ speaking = {} /\ translating = {}
  /\ sourceNodeRef = NoSource

\* C11: with equal source and target language the translation is the input
\* text, unchanged, and no request goes to the translation service.
C11_SameLanguageIsLocal ==
  [][ (Submit /\ sourceLang = targetLang) =>
        /\ translatedText' = inputText
        /\ history'[1].originalText = inputText
        /\ history'[1].translatedText = inputText
        /\ translating' = translating
        /\ \A t \in speaking' \ speaking :
             t.id = nextId /\ t.text = inputText /\ t.transReqs = 0 ]_vars

\* a text has been submitted with equal languages: it is displayed and spoken
\* as it is, without a translation request
C11_Witness ==
  /\ translatedText = << Space, "a" >>
  /\ Len(history) >= 1 /\ history[1].timestamp = now
  /\ history[1].sourceLang = history[1].targetLang
  /\ history[1].translatedText = << Space, "a" >>
  /\ translating = {}
  /\ \E t \in speaking : t.origin = "submit" /\ t.transReqs = 0

\* C12 as stated: an accepted submit from Error clears the error, sets the
\* loading flag and leaves exactly one translation request in flight.
C12_SubmitFromErrorTranslates ==
  [][ (Submit /\ error # NoError) =>
        /\ error' = NoError /\ isLoading'
        /\ Cardinality(translating') = 1
        /\ \A inv \in translating' : inv.id = nextId /\ inv.transReqs = 1 ]_vars

\* C12 amended: an accepted submit from Error clears the error and sets the
\* loading flag; exactly one translation request is in flight when the
\* languages differ, and none when they are equal, the text then going
\* straight to synthesis.
C12_SubmitFromErrorDismisses ==
  [][ (Submit /\ error # NoError) =>
        /\ error' = NoError /\ isLoading'
        /\ sourceLang # targetLang =>
             /\ Cardinality(translating') = 1
             /\ \A inv \in translating' : inv.id = nextId /\ inv.transReqs = 1
             /\ speaking' = speaking
        /\ sourceLang = targetLang =>
             /\ translating' = {}
             /\ \E t \in speaking' : t.id = nextId /\ t.transReqs = 0 ]_vars

\* a submit has been accepted after the speech of the first one had failed
\* (its text is displayed, nothing of it is in flight, no source was ever
\* started): the error is gone and a translation request is in flight
C12_Witness ==
  /\ error = NoError /\ isLoading
  /\ \E inv \in translating : inv.id = 2
  /\ translatedText = << "x" >> /\ now = HistoryCap + 1
  /\ history[1].timestamp = now
  /\ speaking = {} /\ sources = {} /\ sourceNodeRef = NoSource

\* a step of a control other than the submit button that resets the error
ExplicitClear ==
  /\ error' = NoError
  /\ \/ SubmitBlank \/ Replay \/ ClearHistory \/ ClearInput \/ SwapLanguages
     \/ \E i \in 1..Len(history) : LoadHistoryEntry(i)
     \/ \E t \in Texts : SetInputText(t)
     \/ \E l \in Langs : SetSourceLang(l) \/ SetTargetLang(l)

\* C13 as stated: in every Error state some operation that is no submit
\* clears the error.
C13_ErrorExplicitlyClearable ==
  (loaded /\ error # NoError) => ENABLED ExplicitClear

\* C13 amended: a set error is reset only by an accepted submit, or lost with
\* the whole session on a page reload; no other control resets it, the Clear
\* button empties the input text only.
C13_ErrorClearedBySubmitOnly ==
  [][ /\ (error # NoError /\ error' = NoError) => (Submit \/ Restart)
      /\ ClearInput => error' = error ]_vars

\* the Clear button has been used in Error: the error is still shown
C13_Witness ==
  /\ error \in { TranslateErrorText(m) : m \in TranslateErrors }
  /\ inputText = <<>> /\ loaded /\ ~isLoading

\* C14: loading a history entry sets input text, displayed translation and
\* language pair to those of the entry and changes nothing else; no request
\* is sent.
C14_LoadEntryRestoresOnly ==
  [][ \A i \in 1..Len(history) :
        LoadHistoryEntry(i) =>
          /\ inputText' = history[i].originalText
          /\ translatedText' = history[i].translatedText
          /\ sourceLang' = history[i].sourceLang
          /\ targetLang' = history[i].targetLang
          /\ UNCHANGED << history, store, isLoading, isPlaying, error,
                          translating, speaking, audioVars >> ]_vars

\* an entry has been loaded while a translation was in flight: its
\* translation is displayed although no translation has succeeded yet
C14_Witness ==
  /\ translating # {} /\ isLoading
  /\ now = HistoryCap
  /\ inputText = << Space, "a" >> /\ translatedText = << "x" >>
  /\ sourceLang = "en" /\ targetLang = "es"

\* a step of a speakText invocation made by the replay button, or of the
\* source it has started
ReplayStep ==
  \/ \E task \in { t \in speaking : t.origin = "replay" } :
       \/ SynthesisSucceeded(task)
       \/ DecodeSucceeded(task)
       \/ \E m \in SpeechErrors \cup DecodeErrors :
            SynthesisFailed(task, m) \/ DecodeFailed(task, m)
  \/ \E s \in { u \in sources : u.origin = "replay" } :
       PlaybackEnded(s) \/ StoppedEnded(s)

\* C15: a replay sets the playing flag and sends exactly one synthesis
\* request, for the displayed translation, and no translation request; none
\* of its steps changes the history, the stored copy, the input text, the
\* displayed translation or the language pair.
C15_ReplaySpeaksOnly ==
  /\ [][ Replay =>
           /\ isPlaying'
           /\ speaking' = speaking \cup
                { [ id |-> nextId, origin |-> "replay", phase |-> "synth",
                    text |-> translatedText, ctx |-> NoContext,
                    transReqs |-> 0, synthReqs |-> 1 ] }
           /\ speaking' # speaking
           /\ translating' = translating ]_vars
  /\ [][ (Replay \/ ReplayStep) =>
           UNCHANGED << history, store, uiVars >> ]_vars
  /\ [](\A t \in speaking :
          t.origin = "replay" => t.transReqs = 0 /\ t.synthReqs = 1)

\* a replay has run to the start of its source
C15_Witness ==
  \E s \in Playing(sources) : s.origin = "replay" /\ s.id = sourceNodeRef

\* C16: when the synthesis request of a submit is sent, the record of its
\* translation is at index 0 of the history and of the stored copy.
C16_RecordedBeforeSpoken ==
  [][ \A t \in speaking' \ speaking :
        (t.origin = "submit" /\ t.phase = "synth") =>
          /\ Len(history') >= 1
          /\ history'[1].translatedText = t.text
          /\ history'[1].timestamp = now' /\ now' > now
          /\ store' # NoStore
          /\ LoadedHistory(store')[1] = history'[1] ]_vars

\* the synthesis request of a submit is in flight and its record is the
\* first one of the history
C16_Witness ==
  /\ \E t \in speaking :
       /\ t.origin = "submit" /\ t.phase = "synth"
       /\ Len(history) >= 1 /\ history[1].translatedText = t.text
  /\ history[1].timestamp = now /\ now > HistoryCap

\* the records of a history
Records(hist) == { hist[i] : i \in 1..Len(hist) }

\* C17: a record removed by clearHistory never reappears: once the history
\* is loaded, every record that a step puts into the history or into the
\* stored copy is the record created by that step, and the append that
\* follows a clear yields a history of one record.
C17_ClearedNeverReappears ==
  [][ loaded =>
        /\ \A r \in Records(history') \ Records(history) :
             r.timestamp = now' /\ now' > now
        /\ \A r \in Records(LoadedHistory(store')) \ Records(LoadedHistory(store)) :
             r.timestamp = now' /\ now' > now
        /\ (Appends /\ history = <<>>) => Len(history') = 1 ]_vars

\* C18: the playing flag agrees with the playback: whenever a source has
\* been started and has neither ended nor been stopped, isPlaying is set.
C18_FlagSetWhilePlaying ==
  Playing(sources) # {} => isPlaying

\* C19: every record is consistent with its submit: an accepted submit
\* sends the current input text and language pair, and the record appended
\* when the answer arrives holds the text and the pair of that request and
\* that answer, whatever the form fields are by then.
C19_RecordMatchesRequest ==
  /\ [][ Submit =>
           /\ \A inv \in translating' \ translating :
                /\ inv.text = inputText
                /\ inv.src = sourceLang /\ inv.tgt = targetLang
           /\ IsLocal(sourceLang, targetLang) =>
                history'[1] = [ originalText   |-> inputText,
                                translatedText |-> inputText,
                                sourceLang     |-> sourceLang,
                                targetLang     |-> targetLang,
                                timestamp      |-> now' ] ]_vars
  /\ [][ \A inv \in translating : \A r \in RemoteTranslations :
           TranslationSucceeded(inv, r) =>
             history'[1] = [ originalText   |-> inv.text,
                             translatedText |-> r,
                             sourceLang     |-> inv.src,
                             targetLang     |-> inv.tgt,
                             timestamp      |-> now' ] ]_vars
  /\ [][ (loaded /\ history' # history) =>
           \A r \in Records(history') :
             \/ r.timestamp = now'
             \/ r \in Records(history)
             \/ \E inv \in translating : r \in Records(inv.hist) ]_vars

\* the record of a submit whose form fields have been changed since: the
\* input is empty and the languages are swapped, the record holds the text
\* and the pair that were sent
C19_Witness ==
  /\ Len(history) >= 1 /\ now > HistoryCap
  /\ history[1] = [ originalText   |-> << Space, "a" >>,
                    translatedText |-> << "x" >>,
                    sourceLang     |-> "en",
                    targetLang     |-> "es",
                    timestamp      |-> now ]
  /\ inputText = <<>> /\ sourceLang = "es" /\ targetLang = "en"
  /\ \E t \in speaking : t.origin = "submit" /\ t.phase = "synth"

\* C20: the audio context is a lazily created singleton: none exists until
\* a synthesis answer is processed, at most one is ever created by a page,
\* and every decode and every source uses the one the ref holds.
C20_OneLazyContext ==
  /\ [](/\ contexts <= 1
        /\ (audioContextRef = NoContext) <=> (contexts = 0)
        /\ \A t \in speaking :
             /\ t.phase = "synth" => t.ctx = NoContext
             /\ t.phase = "decode" =>
                  t.ctx = audioContextRef /\ t.ctx # NoContext
        /\ \A s \in sources : s.ctx = audioContextRef /\ s.ctx # NoContext)
  /\ [][ (contexts' > contexts \/ (audioContextRef' # audioContextRef
                                     /\ audioContextRef' # NoContext)) =>
           /\ contexts = 0 /\ audioContextRef = NoContext
           /\ \E task \in speaking : SynthesisSucceeded(task) ]_vars

\* a second speak request plays through the context the first one created
C20_Witness ==
  /\ contexts = 1 /\ audioContextRef = 1
  /\ \E s \in sources : s.id = 1 /\ s.state = "stopped" /\ s.ctx = 1
  /\ \E s \in sources : s.id = 2 /\ s.state = "playing" /\ s.ctx = 1

====
